---- MODULE Spec2Model ----
(***************************************************************************)
(* TikTok streak bot (tiktok_auto_forward.py): the daily scheduler loop,   *)
(* the batch runner run_streak_bot, the per-account workflow               *)
(* send_streak_to_user, the captcha guard and the element locators.        *)
(*                                                                         *)
(* Time is counted in minutes since 00:00 of the day the process started  *)
(* (day 0).  The page, the files and the clock are the environment: every  *)
(* read of them is a nondeterministic choice among the outcomes the        *)
(* Selenium / file / clock call can produce.                               *)
(***************************************************************************)
EXTENDS Integers, Sequences, FiniteSets, TLC

(* ------------------------------------------------------------------ *)
(* Program constants                                                   *)
(* ------------------------------------------------------------------ *)
SendHour == 21
SendMinute == 0
MAX_RETRIES == 3
CAPTCHA_CHECK_ATTEMPTS == 3
NumXPathSelectors == 7
NumCssSelectors == 2
NumInputSelectors == 3
NumCloseSelectors == 4
NumClickMethods == 4
PollMinutes == 1
HeartbeatMinutes == 15

(* ------------------------------------------------------------------ *)
(* Bounds of the model                                                 *)
(* ------------------------------------------------------------------ *)
MaxUsers == 2
MaxDays == 2
\* Log writes that raise and are recovered from, per process.
MaxLogFaults == 1
\* Lines of list.txt, and characters of one line.
MaxLines == 2
MaxLineLen == 2

MinutesPerDay == 24 * 60
SendMinuteOfDay == SendHour * 60 + SendMinute
Horizon == MaxDays * MinutesPerDay
Days == 0..(MaxDays + 2)

Handles == {"a", "b"}
\* Account lists list.txt can hold after load_users: 0..MaxUsers handles.
UserLists == UNION {[1..n -> Handles] : n \in 0..MaxUsers}
\* What reading list.txt can give: the file is missing, its bytes are not
\* UTF-8 (UnicodeDecodeError while iterating the lines), or a list.
UsersFiles == {"missing", "undecodable", "list"}
\* What cookies.json can hold: no file; text that is not JSON; JSON whose
\* top-level value has no len() (null, a number); JSON that parses and has a
\* length but is not an array of objects (an object, a string, an array of
\* strings); an array of cookie objects.
CookieFiles == {"missing", "invalid_json", "no_len", "not_objects", "objects"}
MalformedCookieFiles == {"invalid_json", "no_len", "not_objects"}
\* Clock readings (minute of day 0) at which the process is started.
StartTimes == {0, SendMinuteOfDay - 1, SendMinuteOfDay, SendMinuteOfDay + 1,
               MinutesPerDay - 1}
\* Wall-clock minutes one batch run can take: it returns within the minute;
\* it runs past midnight; it is still running at the next day's SEND_TIME
\* (no deadline bounds a run: every failing entry costs three attempts of up
\* to nine 20 s selector waits each, and the list has any length).
BatchDurations == {0, 3 * 60 + 20, MinutesPerDay + 60}

VARIABLES
  spc,            \* position of start_daily_scheduler
  now,            \* the clock, minutes since day 0 00:00
  next_run,       \* schedule job's next_run
  last_check,     \* last heartbeat time
  runsOnDay,      \* history: batch runs triggered, per calendar day
  schedStart,     \* history: clock when the job was scheduled
  busyDays,       \* history: days whose SEND_TIME fell inside a batch run
  jobRaised,      \* history: some batch run ended by raising
  beat,           \* history: the last status update (clock, next run shown)
  logFaults,      \* history: log writes that raised, the process going on
  pc,             \* position inside run_streak_bot / send_streak_to_user
  cookies,        \* run_streak_bot: what load_cookies returned
  users,          \* run_streak_bot: the loaded account list
  driver,         \* run_streak_bot: the local `driver` ("none" or "chrome")
  browsers,       \* browser processes launched and not quit
  idx,            \* 1-based position of `username` in users (0: before loop)
  attempt,        \* loop variable of `for attempt in range(MAX_RETRIES)`
  success_count,
  fail_count,
  error,          \* exception in flight in run_streak_bot
  run,            \* history of this batch run (record, see RunInit)
  wf,             \* locals and history of the workflow attempt (record)
  lookup,         \* the page one element lookup runs on, and what it matched
  list_txt        \* the lines of list.txt one load_users call reads

loopVars == <<spc, now, next_run, last_check, runsOnDay, schedStart, busyDays,
              jobRaised, beat, lookup, list_txt>>
schedVars == <<loopVars, logFaults>>
batchVars == <<cookies, users, driver, browsers, idx, attempt, success_count,
               fail_count, error, run, lookup, list_txt>>
vars == <<spc, now, next_run, last_check, runsOnDay, schedStart, busyDays,
          jobRaised, beat, logFaults, pc, cookies, users, driver, browsers, idx, attempt, success_count,
          fail_count, error, run, wf, lookup, list_txt>>

DayOf(t) == t \div MinutesPerDay
TimeOfDay(t) == t % MinutesPerDay
\* The instant of SEND_TIME on day d.
TriggerOf(d) == d * MinutesPerDay + SendMinuteOfDay

(* ------------------------------------------------------------------ *)
(* Initial values of the locals                                        *)
(* ------------------------------------------------------------------ *)
\* History of one batch run: the files it read, the browsers it launched,
\* whether any page was navigated to, whether a config error was logged by
\* the loaders, the list entries attempted, the entries after which the
\* inter-account delay was slept, the workflow attempts and the messages
\* submitted for the current entry, whether an attempt for it found no
\* message button, the recorded outcome of the entry, and the driver.quit()
\* calls of the finally block.
RunInit ==
  [cookieFile |-> "unread", usersFile |-> "unread", launched |-> 0,
   navigated |-> FALSE, configLogged |-> FALSE, criticalLogged |-> FALSE,
   attempted |-> {}, delayedAfter |-> {}, tries |-> 0, submitted |-> 0,
   no_button |-> FALSE, outcome |-> "none", summary |-> FALSE,
   quit_tried |-> 0]

\* History of one check_and_close_captcha call: a marker was found in the page
\* text, a dismissal action was called (a close click or ESC), the browser
\* clicked a close element, ESC was called, the value returned.
CapInit ==
  [marker |-> FALSE, tried |-> FALSE, close_clicked |-> FALSE, esc |-> FALSE,
   result |-> FALSE]

\* Locals of send_streak_to_user (message_button and message_input hold an
\* element or None) and history of the attempt: the guard calls and the
\* dismissals reported at each call site, whether the element located was
\* displayed, the click methods that reported success (clicks) and the clicks
\* the browser performed on the button (dispatched), the screenshot written
\* (its tag), the save_screenshot calls made, whether the handler at line 392
\* ran, the state of the workflow in which the attempt failed.
WfInit ==
  [site |-> 0, sel |-> 0, calls1 |-> 0, dismissed1 |-> 0, calls2 |-> 0,
   dismissed2 |-> 0, message_button |-> "none", button_displayed |-> FALSE,
   clicks |-> 0, dispatched |-> 0, message_input |-> "none",
   input_displayed |-> FALSE, shot |-> "none", shots_tried |-> 0,
   handled |-> FALSE, failed_from |-> "none", cap |-> CapInit,
   result |-> "none"]

\* No status update printed yet.
NoBeat == [at |-> -1, next |-> -1]

\* No fixed page: the batch run reads the live page selector by selector.
NoLookup == [kind |-> "none", page |-> <<>>, matched |-> 0]

(* ------------------------------------------------------------------ *)
(* The schedule library job: every().day.at(SEND_TIME).do(...)         *)
(* ------------------------------------------------------------------ *)
\* Mutant: the job is always rescheduled for the following day, also when
\* today's SEND_TIME is still ahead.
ScheduleNextRun_AlwaysTomorrow(t) == TriggerOf(DayOf(t) + 1)

\* Job._schedule_next_run at clock t: the first SEND_TIME instant strictly
\* after t (today's when the time of day is before SEND_TIME, else
\* tomorrow's).
ScheduleNextRun(t) ==
  IF TimeOfDay(t) < SendMinuteOfDay
    THEN TriggerOf(DayOf(t))
    ELSE TriggerOf(DayOf(t) + 1)

\* Job.should_run at clock t.
ShouldRun(t) == t >= next_run

Init ==
  /\ spc = "init"
  /\ now \in StartTimes
  /\ next_run = -1
  /\ last_check = -1
  /\ runsOnDay = [d \in Days |-> 0]
  /\ schedStart = -1
  /\ busyDays = {}
  /\ jobRaised = FALSE
  /\ beat = NoBeat
  /\ logFaults = 0
  /\ pc = "idle"
  /\ cookies = "none"
  /\ users = <<>>
  /\ driver = "none"
  /\ browsers = 0
  /\ idx = 0
  /\ attempt = 0
  /\ success_count = 0
  /\ fail_count = 0
  /\ error = "none"
  /\ run = RunInit
  /\ wf = WfInit
  /\ lookup = NoLookup
  /\ list_txt = <<>>

(* ------------------------------------------------------------------ *)
(* start_daily_scheduler                                               *)
(* ------------------------------------------------------------------ *)
\* Lines 483-535: parse SEND_TIME, schedule the job, print the banner, write
\* the start line to the log, take the first last_check.  log_activity
\* (97-109) opens and appends the log file: when that raises here, nothing
\* catches it before the entry point and the loop is never entered.
StartDailyScheduler ==
  /\ spc = "init"
  /\ next_run' = ScheduleNextRun(now)
  /\ \/ /\ schedStart' = now
        /\ last_check' = now
        /\ spc' = "poll"
     \/ /\ spc' = "start_failed"
        /\ UNCHANGED <<schedStart, last_check>>
  /\ UNCHANGED <<now, runsOnDay, busyDays, jobRaised, beat, logFaults, pc, wf>>
  /\ UNCHANGED batchVars

\* Line 544: the status update is due at clock t.
HeartbeatDue(t) == t - last_check >= HeartbeatMinutes

\* Lines 546-550: the next run the status line reports at clock t.
HeartbeatNextRun(t) ==
  IF TimeOfDay(t) < SendMinuteOfDay
    THEN TriggerOf(DayOf(t))
    ELSE TriggerOf(DayOf(t)) + MinutesPerDay

\* Lines 543-563, the rest of an iteration after run_pending returned: when
\* the status update is due it is printed (line 557) and written to the log
\* (line 558); last_check is assigned after the write (line 560); then
\* time.sleep(60).  A log write that raises goes to the handler at line 572.
HeartbeatAndSleep ==
  IF HeartbeatDue(now)
    THEN /\ beat' = [at |-> now, next |-> HeartbeatNextRun(now)]
         /\ \/ /\ last_check' = now
               /\ now' = now + PollMinutes
               /\ spc' = "poll"
               /\ UNCHANGED logFaults
            \/ /\ logFaults < MaxLogFaults
               /\ logFaults' = logFaults + 1
               /\ spc' = "sched_except"
               /\ UNCHANGED <<last_check, now>>
    ELSE /\ now' = now + PollMinutes
         /\ spc' = "poll"
         /\ UNCHANGED <<last_check, beat, logFaults>>

\* Line 540, schedule.run_pending() with the job due: run_streak_bot is
\* entered.
RunPending ==
  /\ spc = "poll"
  /\ ShouldRun(now)
  /\ spc' = "job"
  /\ pc' = "start"
  /\ runsOnDay' = [runsOnDay EXCEPT ![DayOf(now)] = @ + 1]
  /\ UNCHANGED <<now, next_run, last_check, schedStart, busyDays, jobRaised,
                 beat, logFaults, wf>>
  /\ UNCHANGED batchVars

\* Lines 540-563, one iteration with no job due: run_pending does nothing,
\* the heartbeat check, time.sleep(60).
IdleIteration ==
  /\ spc = "poll"
  /\ ~ShouldRun(now)
  /\ now < Horizon
  /\ HeartbeatAndSleep
  /\ UNCHANGED <<next_run, runsOnDay, schedStart, busyDays, jobRaised, pc, wf>>
  /\ UNCHANGED batchVars

\* The locals of run_streak_bot are gone when it is left.
BatchLocalsGone ==
  /\ pc' = "idle"
  /\ cookies' = "none"
  /\ users' = <<>>
  /\ idx' = 0
  /\ attempt' = 0
  /\ success_count' = 0
  /\ fail_count' = 0
  /\ run' = RunInit
  /\ driver' = "none"
  /\ wf' = WfInit

\* run_streak_bot returned: Job.run records last_run and reschedules from the
\* clock as it is now, d minutes after the job was started (a run that ended
\* before its per-account loop took less than a minute).
JobReturns ==
  /\ spc = "job"
  /\ pc = "return"
  /\ error = "none"
  /\ \E d \in (IF run.attempted = {} THEN {0} ELSE BatchDurations) :
       /\ now' = now + d
       /\ next_run' = ScheduleNextRun(now + d)
       /\ busyDays' = busyDays \cup
            {dd \in Days : now < TriggerOf(dd) /\ TriggerOf(dd) <= now + d}
  /\ spc' = "heartbeat"
  /\ BatchLocalsGone
  /\ UNCHANGED <<last_check, runsOnDay, schedStart, jobRaised, beat, logFaults,
                 browsers, error, lookup, list_txt>>

\* run_streak_bot raised: the exception passes through Job.run before it
\* records last_run or reschedules, and through run_pending, to the loop's
\* `except Exception` (line 572).  next_run stays where it was.
JobRaises ==
  /\ spc = "job"
  /\ pc = "return"
  /\ error = "exception"
  /\ \E d \in (IF run.attempted = {} THEN {0} ELSE BatchDurations) :
       /\ now' = now + d
       /\ busyDays' = busyDays \cup
            {dd \in Days : now < TriggerOf(dd) /\ TriggerOf(dd) <= now + d}
  /\ spc' = "sched_except"
  /\ jobRaised' = TRUE
  /\ error' = "none"
  /\ BatchLocalsGone
  /\ UNCHANGED <<next_run, last_check, runsOnDay, schedStart, beat, logFaults,
                 browsers, lookup, list_txt>>

\* A KeyboardInterrupt left run_streak_bot: it passes through run_pending to
\* the loop's `except KeyboardInterrupt` (lines 565-571), which breaks.
JobInterrupted ==
  /\ spc = "job"
  /\ pc = "return"
  /\ error = "interrupt"
  /\ spc' = "stopped"
  /\ pc' = "idle"
  /\ UNCHANGED <<now, next_run, last_check, runsOnDay, schedStart, busyDays,
                 jobRaised, beat, logFaults, wf>>
  /\ UNCHANGED batchVars

\* Lines 543-563, the rest of the iteration in which the job ran: the
\* heartbeat check, time.sleep(60).
AfterJob ==
  /\ spc = "heartbeat"
  /\ now < Horizon
  /\ HeartbeatAndSleep
  /\ UNCHANGED <<next_run, runsOnDay, schedStart, busyDays, jobRaised, pc, wf>>
  /\ UNCHANGED batchVars

\* Lines 572-577, `except Exception`: print the error, write it to the log,
\* sleep 60 s and go round the loop.  The log write is the same append as the
\* one at 558: when it raises here the exception leaves the handler, the loop
\* and start_daily_scheduler (the entry point prints "Fatal error" and the
\* process ends).
SchedulerExcept ==
  /\ spc = "sched_except"
  /\ \/ /\ now < Horizon
        /\ now' = now + PollMinutes
        /\ spc' = "poll"
     \/ /\ spc' = "crashed"
        /\ UNCHANGED now
  /\ UNCHANGED <<next_run, last_check, runsOnDay, schedStart, busyDays,
                 jobRaised, beat, logFaults, pc, wf>>
  /\ UNCHANGED batchVars

\* Ctrl+C while the loop sleeps (line 563: lines 565-571 break the loop) or
\* while the handler sleeps (line 577: the interrupt leaves the function).
InterruptSleep ==
  /\ spc \in {"poll", "sched_except"}
  /\ spc' = "stopped"
  /\ UNCHANGED <<now, next_run, last_check, runsOnDay, schedStart, busyDays,
                 jobRaised, beat, logFaults, pc, wf>>
  /\ UNCHANGED batchVars

(* ------------------------------------------------------------------ *)
(* run_streak_bot                                                       *)
(* ------------------------------------------------------------------ *)
\* Lines 407-411: the start banner, driver = None.  The three log_activity
\* calls stand before the try: a log write that raises leaves run_streak_bot.
RunStart ==
  /\ pc = "start"
  /\ \/ /\ pc' = "load_cookies"
        /\ UNCHANGED <<error, logFaults>>
     \/ /\ logFaults < MaxLogFaults
        /\ logFaults' = logFaults + 1
        /\ pc' = "return"
        /\ error' = "exception"
  /\ UNCHANGED loopVars
  /\ UNCHANGED <<cookies, users, driver, browsers, idx, attempt,
                 success_count, fail_count, run, wf>>

\* Line 415 with load_cookies (72-83).  A missing file and invalid JSON are
\* logged and re-raised; a value without len() raises TypeError at line 76;
\* any other JSON value is returned as it is.
LoadCookies ==
  /\ pc = "load_cookies"
  /\ \E f \in CookieFiles :
       /\ run' = [run EXCEPT !.cookieFile = f,
                             !.configLogged = f \in {"missing", "invalid_json"}]
       /\ IF f \in {"objects", "not_objects"}
            THEN cookies' = f /\ pc' = "load_users"
            ELSE cookies' = cookies /\ pc' = "except"
  /\ UNCHANGED schedVars
  /\ UNCHANGED <<users, driver, browsers, idx, attempt, success_count,
                 fail_count, error, wf>>

\* Lines 416-420 with load_users (86-94).  A missing file is logged and
\* re-raised, undecodable bytes raise out of the comprehension, an empty
\* list is logged and the function returns (through finally).
LoadUsers ==
  /\ pc = "load_users"
  /\ \/ /\ run' = [run EXCEPT !.usersFile = "missing", !.configLogged = TRUE]
        /\ pc' = "except"
        /\ UNCHANGED users
     \/ /\ run' = [run EXCEPT !.usersFile = "undecodable"]
        /\ pc' = "except"
        /\ UNCHANGED users
     \/ \E l \in UserLists :
          /\ users' = l
          /\ IF l = <<>>
               THEN /\ run' = [run EXCEPT !.usersFile = "empty",
                                          !.configLogged = TRUE]
                    /\ pc' = "finally"
               ELSE /\ run' = [run EXCEPT !.usersFile = "list"]
                    /\ pc' = "setup_driver"
  /\ UNCHANGED schedVars
  /\ UNCHANGED <<cookies, driver, browsers, idx, attempt, success_count,
                 fail_count, error, wf>>

\* Line 423 with setup_driver (116-152): Chrome is launched (line 140) and the
\* CDP script installed (line 142); either call can raise, and only a
\* returned driver is assigned to the local.
SetupDriver ==
  /\ pc = "setup_driver"
  /\ \/ /\ driver' = "chrome"
        /\ browsers' = browsers + 1
        /\ run' = [run EXCEPT !.launched = @ + 1]
        /\ pc' = "load_cookies_to_driver"
     \/ /\ pc' = "except"
        /\ UNCHANGED <<driver, browsers, run>>
     \/ /\ browsers' = browsers + 1
        /\ run' = [run EXCEPT !.launched = @ + 1]
        /\ pc' = "except"
        /\ UNCHANGED driver
  /\ UNCHANGED schedVars
  /\ UNCHANGED <<cookies, users, idx, attempt, success_count, fail_count,
                 error, wf>>

\* Line 424 with load_cookies_to_driver (155-180): navigate to the site, then
\* add each cookie.  An item that is not an object has no .get: line 162
\* raises inside the try and line 178 raises again inside the handler.
LoadCookiesToDriver ==
  /\ pc = "load_cookies_to_driver"
  /\ run' = [run EXCEPT !.navigated = TRUE]
  /\ \/ pc' = "except"
     \/ pc' = IF cookies = "objects" THEN "home" ELSE "except"
  /\ UNCHANGED schedVars
  /\ UNCHANGED <<cookies, users, driver, browsers, idx, attempt,
                 success_count, fail_count, error, wf>>

\* Lines 426-433: open the home page, zero the counters.
Home ==
  /\ pc = "home"
  /\ \/ /\ pc' = "for_user"
        /\ idx' = 0
        /\ success_count' = 0
        /\ fail_count' = 0
     \/ /\ pc' = "except"
        /\ UNCHANGED <<idx, success_count, fail_count>>
  /\ UNCHANGED schedVars
  /\ UNCHANGED <<cookies, users, driver, browsers, attempt, error, run, wf>>

\* Line 435, `for username in users`: the next entry, or the end of the list.
ForUsername ==
  /\ pc = "for_user"
  /\ IF idx < Len(users)
       THEN /\ idx' = idx + 1
            /\ attempt' = 0
            /\ run' = [run EXCEPT !.tries = 0, !.submitted = 0,
                                  !.no_button = FALSE, !.outcome = "none"]
            /\ pc' = "attempt"
       ELSE /\ pc' = "summary"
            /\ UNCHANGED <<idx, attempt, run>>
  /\ UNCHANGED schedVars
  /\ UNCHANGED <<cookies, users, driver, browsers, success_count, fail_count,
                 error, wf>>

\* Lines 436-437: one iteration of `for attempt in range(MAX_RETRIES)` calls
\* send_streak_to_user(driver, username).
CallSendStreak ==
  /\ pc = "attempt"
  /\ attempt < MAX_RETRIES
  /\ run' = [run EXCEPT !.tries = @ + 1, !.attempted = @ \cup {idx}]
  /\ wf' = WfInit
  /\ pc' = "navigate"
  /\ UNCHANGED schedVars
  /\ UNCHANGED <<cookies, users, driver, browsers, idx, attempt,
                 success_count, fail_count, error>>

\* Lines 437-440: the workflow returned True.
RecordSuccess ==
  /\ pc = "attempt_done"
  /\ wf.result = "true"
  /\ success_count' = success_count + 1
  /\ run' = [run EXCEPT !.outcome = "success"]
  /\ pc' = "delay_check"
  /\ wf' = WfInit
  /\ UNCHANGED schedVars
  /\ UNCHANGED <<cookies, users, driver, browsers, idx, attempt, fail_count,
                 error>>

\* Mutant: the exhausted entry is not counted as failed.
RetryOrFail_NoCount ==
  /\ pc = "attempt_done"
  /\ wf.result = "false"
  /\ IF attempt < MAX_RETRIES - 1
       THEN /\ attempt' = attempt + 1
            /\ pc' = "attempt"
            /\ UNCHANGED <<fail_count, run>>
       ELSE /\ fail_count' = fail_count
            /\ run' = [run EXCEPT !.outcome = "fail"]
            /\ pc' = "delay_check"
            /\ UNCHANGED attempt
  /\ wf' = WfInit
  /\ UNCHANGED schedVars
  /\ UNCHANGED <<cookies, users, driver, browsers, idx, success_count,
                 error>>

\* Mutant: the failure is recorded one attempt early.
RetryOrFail_EarlyFail ==
  /\ pc = "attempt_done"
  /\ wf.result = "false"
  /\ IF attempt < MAX_RETRIES - 2
       THEN /\ attempt' = attempt + 1
            /\ pc' = "attempt"
            /\ UNCHANGED <<fail_count, run>>
       ELSE /\ fail_count' = fail_count + 1
            /\ run' = [run EXCEPT !.outcome = "fail"]
            /\ pc' = "delay_check"
            /\ UNCHANGED attempt
  /\ wf' = WfInit
  /\ UNCHANGED schedVars
  /\ UNCHANGED <<cookies, users, driver, browsers, idx, success_count,
                 error>>

\* Lines 441-447: the workflow returned False; retry after 5 s, or record the
\* failure on the last attempt (the for loop then ends).
RetryOrFail ==
  /\ pc = "attempt_done"
  /\ wf.result = "false"
  /\ IF attempt < MAX_RETRIES - 1
       THEN /\ attempt' = attempt + 1
            /\ pc' = "attempt"
            /\ UNCHANGED <<fail_count, run>>
       ELSE /\ fail_count' = fail_count + 1
            /\ run' = [run EXCEPT !.outcome = "fail"]
            /\ pc' = "delay_check"
            /\ UNCHANGED attempt
  /\ wf' = WfInit
  /\ UNCHANGED schedVars
  /\ UNCHANGED <<cookies, users, driver, browsers, idx, success_count,
                 error>>

\* Lines 449-453: sleep 8-15 s unless username equals the last list element.
DelayBetweenUsers ==
  /\ pc = "delay_check"
  /\ run' = IF users[idx] # users[Len(users)]
              THEN [run EXCEPT !.delayedAfter = @ \cup {idx}]
              ELSE run
  /\ pc' = "for_user"
  /\ UNCHANGED schedVars
  /\ UNCHANGED <<cookies, users, driver, browsers, idx, attempt,
                 success_count, fail_count, error, wf>>

\* Lines 455-460: the run summary.
Summary ==
  /\ pc = "summary"
  /\ run' = [run EXCEPT !.summary = TRUE]
  /\ pc' = "finally"
  /\ UNCHANGED schedVars
  /\ UNCHANGED <<cookies, users, driver, browsers, idx, attempt,
                 success_count, fail_count, error, wf>>

\* Lines 462-465: `except Exception` writes the critical error to the log; a
\* log write that raises inside the handler leaves run_streak_bot through the
\* finally block.
CriticalError ==
  /\ pc = "except"
  /\ \/ /\ run' = [run EXCEPT !.criticalLogged = TRUE]
        /\ UNCHANGED <<error, logFaults>>
     \/ /\ logFaults < MaxLogFaults
        /\ logFaults' = logFaults + 1
        /\ error' = "exception"
        /\ UNCHANGED run
  /\ pc' = "finally"
  /\ UNCHANGED loopVars
  /\ UNCHANGED <<cookies, users, driver, browsers, idx, attempt,
                 success_count, fail_count, wf>>

\* Lines 467-473: quit the browser the local `driver` names; a failing quit
\* is swallowed.
Finally ==
  /\ pc = "finally"
  /\ IF driver = "chrome"
       THEN /\ \E quit_ok \in BOOLEAN :
                 browsers' = IF quit_ok THEN browsers - 1 ELSE browsers
            /\ run' = [run EXCEPT !.quit_tried = @ + 1]
       ELSE /\ browsers' = browsers
            /\ run' = run
  /\ pc' = "return"
  /\ UNCHANGED schedVars
  /\ UNCHANGED <<cookies, users, driver, idx, attempt, success_count,
                 fail_count, error, wf>>

(* ------------------------------------------------------------------ *)
(* send_streak_to_user                                                  *)
(* ------------------------------------------------------------------ *)
\* The workflow returns r ("true" / "false") to line 437; its locals are
\* gone, the screenshot it wrote stays.
WfReturn(w, r) ==
  [WfInit EXCEPT !.result = r, !.shot = w.shot,
                 !.shots_tried = w.shots_tried, !.handled = w.handled,
                 !.failed_from = w.failed_from]

\* Lines 320-329: load the profile page and let it settle.
Navigate ==
  /\ pc = "navigate"
  /\ run' = [run EXCEPT !.navigated = TRUE]
  /\ \/ /\ pc' = "guard1"
        /\ wf' = wf
     \/ /\ pc' = "wf_except"
        /\ wf' = [wf EXCEPT !.failed_from = "NAVIGATE"]
  /\ UNCHANGED schedVars
  /\ UNCHANGED <<cookies, users, driver, browsers, idx, attempt,
                 success_count, fail_count, error>>

\* Mutant: the loop runs one time too many.
Guard1_OneTooMany ==
  /\ pc = "guard1"
  /\ IF wf.calls1 <= CAPTCHA_CHECK_ATTEMPTS
       THEN /\ wf' = [wf EXCEPT !.site = 1, !.calls1 = @ + 1]
            /\ pc' = "cap_detect"
       ELSE /\ wf' = [wf EXCEPT !.site = 0, !.sel = 1]
            /\ pc' = "locate_button"
  /\ UNCHANGED schedVars
  /\ UNCHANGED batchVars

\* Lines 331-336, `for _ in range(CAPTCHA_CHECK_ATTEMPTS)`: call the guard
\* again, or leave the loop when the range is exhausted.
Guard1 ==
  /\ pc = "guard1"
  /\ IF wf.calls1 < CAPTCHA_CHECK_ATTEMPTS
       THEN /\ wf' = [wf EXCEPT !.site = 1, !.calls1 = @ + 1]
            /\ pc' = "cap_detect"
       ELSE /\ wf' = [wf EXCEPT !.site = 0, !.sel = 1]
            /\ pc' = "locate_button"
  /\ UNCHANGED schedVars
  /\ UNCHANGED batchVars

\* Line 351: the single guard call after the message-button click.
Guard2 ==
  /\ pc = "guard2"
  /\ wf' = [wf EXCEPT !.site = 2, !.calls2 = @ + 1, !.dispatched = 0]
  /\ pc' = "cap_detect"
  /\ UNCHANGED schedVars
  /\ UNCHANGED batchVars

\* check_and_close_captcha returns r to its call site: at line 333 True
\* sleeps and loops, False breaks; at line 351 the result is dropped.
CaptchaReturn(w, r) ==
  IF w.site = 1
    THEN [w EXCEPT !.site = 0,
                   !.dismissed1 = IF r THEN @ + 1 ELSE @,
                   !.sel = IF r THEN 0 ELSE 1,
                   !.cap = CapInit]
    ELSE [w EXCEPT !.site = 0,
                   !.dismissed2 = IF r THEN @ + 1 ELSE @,
                   !.sel = 1,
                   !.cap = CapInit]

CaptchaReturnPc(w, r) ==
  IF w.site = 1
    THEN (IF r THEN "guard1" ELSE "locate_button")
    ELSE "locate_input"

\* Lines 196-200 and 229-231: read the body text and look for the markers;
\* no marker, or any exception, returns False.
CaptchaDetect ==
  /\ pc = "cap_detect"
  /\ \/ /\ wf' = [wf EXCEPT !.sel = 1, !.cap.marker = TRUE]
        /\ pc' = "cap_close"
     \/ /\ wf' = [wf EXCEPT !.cap.result = FALSE]
        /\ pc' = "cap_return"
  /\ UNCHANGED schedVars
  /\ UNCHANGED batchVars

\* What one close selector (lines 211-219) can give: find_element raises; the
\* button is not displayed; click() raises before the browser clicked; the
\* click and the sleep go through; the browser clicks and an exception
\* follows (WebDriver reports an error after the click, or Ctrl+C arrives in
\* time.sleep(2): the bare `except:` takes every one of them for `continue`).
CloseOutcomes == {"absent", "hidden", "click_raises", "clicked",
                  "clicked_raises"}

\* Lines 210-219: the close selectors in order; the first displayed button
\* whose click and sleep do not raise returns True, every exception goes on
\* to the next selector.
CaptchaClose ==
  /\ pc = "cap_close"
  /\ \E o \in CloseOutcomes :
       IF o = "clicked"
         THEN /\ wf' = [wf EXCEPT !.cap.tried = TRUE,
                                  !.cap.close_clicked = TRUE,
                                  !.cap.result = TRUE]
              /\ pc' = "cap_return"
         ELSE /\ wf' = [wf EXCEPT
                          !.sel = @ + 1,
                          !.cap.tried =
                            @ \/ o \in {"click_raises", "clicked_raises"},
                          !.cap.close_clicked = @ \/ o = "clicked_raises"]
              /\ pc' = IF wf.sel < NumCloseSelectors
                         THEN "cap_close" ELSE "cap_esc"
  /\ UNCHANGED schedVars
  /\ UNCHANGED batchVars

\* Lines 221-229: the ESC fallback; a raising perform() falls through to
\* `return False`.
CaptchaEscape ==
  /\ pc = "cap_esc"
  /\ \E esc_ok \in BOOLEAN :
       wf' = [wf EXCEPT !.cap.tried = TRUE, !.cap.esc = TRUE,
                        !.cap.result = esc_ok]
  /\ pc' = "cap_return"
  /\ UNCHANGED schedVars
  /\ UNCHANGED batchVars

\* The value goes back to the call site (line 333 or 351).
CaptchaReturns ==
  /\ pc = "cap_return"
  /\ wf' = CaptchaReturn(wf, wf.cap.result)
  /\ pc' = CaptchaReturnPc(wf, wf.cap.result)
  /\ UNCHANGED schedVars
  /\ UNCHANGED batchVars

\* What one wait.until(presence...) + is_displayed() can give for a selector.
LocatorOutcomes == {"timeout", "hidden", "displayed"}

\* Mutant: the is_displayed() check is dropped.
ButtonSelectorReturns_AnyPresent(o) == o \in {"hidden", "displayed"}

\* find_message_button, lines 255-264 and 272-279: one selector of the XPath
\* list, then of the CSS list; a displayed element is returned, anything
\* else (timeout, not displayed, exception) goes to the next selector.
ButtonSelectorReturns(o) == o = "displayed"

NumButtonSelectors == NumXPathSelectors + NumCssSelectors

\* Lines 341-342 with find_message_button (238-282): the selector at
\* position wf.sel gives outcome o.
ButtonLookupStep(o) ==
  IF ButtonSelectorReturns(o)
    THEN /\ wf' = [wf EXCEPT !.message_button = "element",
                             !.button_displayed = (o = "displayed"),
                             !.calls1 = 0, !.dismissed1 = 0,
                             !.sel = 1]
         /\ pc' = "click_button"
    ELSE IF wf.sel < NumButtonSelectors
      THEN /\ wf' = [wf EXCEPT !.sel = @ + 1]
           /\ pc' = "locate_button"
      ELSE /\ wf' = [wf EXCEPT !.message_button = "none",
                               !.calls1 = 0, !.dismissed1 = 0,
                               !.sel = 0]
           /\ pc' = "no_button"

\* One selector of find_message_button on the live page.
FindMessageButton ==
  /\ pc = "locate_button"
  /\ \E o \in LocatorOutcomes : ButtonLookupStep(o)
  /\ UNCHANGED schedVars
  /\ UNCHANGED batchVars

\* Mutant: the workflow goes on after the message button was not found.
NoButton_Continues ==
  /\ pc = "no_button"
  /\ wf' = [wf EXCEPT !.shot = "no_button", !.sel = 1]
  /\ run' = [run EXCEPT !.no_button = TRUE]
  /\ pc' = "click_button"
  /\ UNCHANGED schedVars
  /\ UNCHANGED <<cookies, users, driver, browsers, idx, attempt,
                 success_count, fail_count, error>>

\* Mutant: the attempt without a message button reports success.
NoButton_ReturnsTrue ==
  /\ pc = "no_button"
  /\ wf' = WfReturn([wf EXCEPT !.shot = "no_button",
                               !.failed_from = "LOCATE_BUTTON"], "true")
  /\ run' = [run EXCEPT !.no_button = TRUE]
  /\ pc' = "attempt_done"
  /\ UNCHANGED schedVars
  /\ UNCHANGED <<cookies, users, driver, browsers, idx, attempt,
                 success_count, fail_count, error>>

\* What driver.save_screenshot(name) can do: write the file; return False
\* because the file cannot be written; raise (the browser does not answer).
ScreenshotOutcomes == {"written", "not_written", "raises"}

\* The screenshot call at a failure exit (lines 343, 347, 373) with outcome o,
\* tag and workflow state: a raising call goes to the handler at 392, any
\* other is followed by `return False`.
FailureExit(o, tag, stage) ==
  IF o = "raises"
    THEN /\ wf' = [wf EXCEPT !.failed_from = stage, !.shots_tried = @ + 1]
         /\ pc' = "wf_except"
    ELSE /\ wf' = WfReturn([wf EXCEPT
                              !.shot = IF o = "written" THEN tag ELSE @,
                              !.shots_tried = @ + 1,
                              !.failed_from = stage], "false")
         /\ pc' = "attempt_done"

\* Lines 342-344: no button; screenshot and return False.
NoButton ==
  /\ pc = "no_button"
  /\ \E o \in ScreenshotOutcomes : FailureExit(o, "no_button", "LOCATE_BUTTON")
  /\ run' = [run EXCEPT !.no_button = TRUE]
  /\ UNCHANGED schedVars
  /\ UNCHANGED <<cookies, users, driver, browsers, idx, attempt,
                 success_count, fail_count, error>>

\* What one click method (lines 293-296) can do: raise before the browser
\* clicked (element stale, intercepted, not interactable); click and return;
\* click and then raise (WebDriver waits for the navigation the click started
\* and reports a timeout, or the command's reply is lost).
ClickOutcomes == {"raises", "clicked", "clicked_raises"}

\* Line 346 with click_message_button (285-311): the click methods in order,
\* stopping at the first that does not raise.
ClickMessageButton ==
  /\ pc = "click_button"
  /\ \E o \in ClickOutcomes :
       IF o = "clicked"
         THEN /\ wf' = [wf EXCEPT !.clicks = @ + 1, !.dispatched = @ + 1,
                                  !.sel = 0]
              /\ pc' = "guard2"
         ELSE IF wf.sel < NumClickMethods
           THEN /\ wf' = [wf EXCEPT
                            !.sel = @ + 1,
                            !.dispatched = IF o = "clicked_raises"
                                             THEN @ + 1 ELSE @]
                /\ pc' = "click_button"
           ELSE /\ wf' = [wf EXCEPT !.sel = 0, !.dispatched = 0]
                /\ pc' = "click_failed"
  /\ UNCHANGED schedVars
  /\ UNCHANGED batchVars

\* Lines 346-348: all click methods failed; screenshot and return False.
ClickFailed ==
  /\ pc = "click_failed"
  /\ \E o \in ScreenshotOutcomes :
       FailureExit(o, "click_failed", "CLICK_BUTTON")
  /\ UNCHANGED schedVars
  /\ UNCHANGED batchVars

\* Lines 361-369, one selector of input_selectors: wait.until assigns
\* message_input as soon as the element is present; the loop breaks only when
\* it is displayed; a timeout leaves message_input as it was.
InputSelectorAssigns(o) == o \in {"hidden", "displayed"}
InputSelectorBreaks(o) == o = "displayed"

\* The input selector at position wf.sel gives outcome o.
InputLookupStep(o) ==
  /\ wf' = [wf EXCEPT
              !.message_input = IF InputSelectorAssigns(o)
                                  THEN "element" ELSE @,
              !.input_displayed = IF InputSelectorAssigns(o)
                                    THEN o = "displayed" ELSE @,
              !.sel = IF InputSelectorBreaks(o) THEN 0 ELSE @ + 1]
  /\ pc' = IF InputSelectorBreaks(o) \/ wf.sel = NumInputSelectors
             THEN "input_check" ELSE "locate_input"

\* One selector of the message-input loop on the live page.
FindMessageInput ==
  /\ pc = "locate_input"
  /\ \E o \in LocatorOutcomes : InputLookupStep(o)
  /\ UNCHANGED schedVars
  /\ UNCHANGED batchVars

\* Lines 371-374: `if not message_input`: screenshot and return False.
InputCheck ==
  /\ pc = "input_check"
  /\ IF wf.message_input = "none"
       THEN \E o \in ScreenshotOutcomes :
              FailureExit(o, "no_input", "LOCATE_INPUT")
       ELSE /\ wf' = wf
            /\ pc' = "type_and_submit"
  /\ UNCHANGED schedVars
  /\ UNCHANGED batchVars

\* Lines 376-390: click the input, type the message, press RETURN.  Each
\* Selenium call can raise; the message is submitted only by the last one,
\* send_keys(Keys.RETURN), which can also raise after the browser took the
\* key (the page re-renders the input while the command runs, or the
\* command's reply is lost).
TypeAndSubmit ==
  /\ pc = "type_and_submit"
  /\ \/ /\ wf' = WfReturn(wf, "true")
        /\ run' = [run EXCEPT !.submitted = @ + 1]
        /\ pc' = "attempt_done"
     \/ /\ wf' = [wf EXCEPT !.failed_from = "TYPE_AND_SUBMIT"]
        /\ run' = run
        /\ pc' = "wf_except"
     \/ /\ wf' = [wf EXCEPT !.failed_from = "TYPE_AND_SUBMIT"]
        /\ run' = [run EXCEPT !.submitted = @ + 1]
        /\ pc' = "wf_except"
  /\ UNCHANGED schedVars
  /\ UNCHANGED <<cookies, users, driver, browsers, idx, attempt,
                 success_count, fail_count, error>>

\* Mutant: the handler re-raises into run_streak_bot.
WorkflowExcept_Reraise ==
  /\ pc = "wf_except"
  /\ wf' = [wf EXCEPT !.shot = "error"]
  /\ pc' = "except"
  /\ UNCHANGED schedVars
  /\ UNCHANGED batchVars

\* Mutant: the handler returns False without a screenshot.
WorkflowExcept_NoScreenshot ==
  /\ pc = "wf_except"
  /\ wf' = WfReturn([wf EXCEPT !.handled = TRUE], "false")
  /\ pc' = "attempt_done"
  /\ UNCHANGED schedVars
  /\ UNCHANGED batchVars

\* Lines 392-398: `except Exception` logs, tries a screenshot (a call that
\* raises is swallowed, one that returns False is not looked at) and returns
\* False.
WorkflowExcept ==
  /\ pc = "wf_except"
  /\ \E o \in ScreenshotOutcomes :
       wf' = WfReturn([wf EXCEPT !.shot = IF o = "written" THEN "error" ELSE @,
                                 !.shots_tried = @ + 1,
                                 !.handled = TRUE],
                      "false")
  /\ pc' = "attempt_done"
  /\ UNCHANGED schedVars
  /\ UNCHANGED batchVars

\* Positions of run_streak_bot at which a KeyboardInterrupt is not swallowed
\* by a bare `except:` (as it is inside the captcha guard, the locators and
\* the finally block).
InterruptPoints ==
  {"start", "load_cookies", "load_users", "setup_driver",
   "load_cookies_to_driver", "home", "for_user", "attempt", "attempt_done",
   "delay_check", "summary", "except", "navigate", "guard1", "guard2",
   "no_button", "click_button", "click_failed", "input_check",
   "type_and_submit", "wf_except"}

\* Ctrl+C during the batch: KeyboardInterrupt is no Exception, so neither
\* line 392 nor line 462 catches it; the finally block runs and the
\* interrupt leaves run_streak_bot.  The other locals are dead from here on;
\* of the run's history the launched browsers stay.
InterruptBatch ==
  /\ spc = "job"
  /\ pc \in InterruptPoints
  /\ error' = "interrupt"
  /\ pc' = "finally"
  /\ cookies' = "none"
  /\ users' = <<>>
  /\ idx' = 0
  /\ attempt' = 0
  /\ success_count' = 0
  /\ fail_count' = 0
  /\ run' = [RunInit EXCEPT !.launched = run.launched]
  /\ wf' = WfInit
  /\ UNCHANGED schedVars
  /\ UNCHANGED <<driver, browsers>>

Next ==
  \/ StartDailyScheduler
  \/ RunPending
  \/ JobReturns
  \/ JobRaises
  \/ SchedulerExcept
  \/ JobInterrupted
  \/ IdleIteration
  \/ AfterJob
  \/ InterruptSleep
  \/ RunStart
  \/ LoadCookies
  \/ LoadUsers
  \/ SetupDriver
  \/ LoadCookiesToDriver
  \/ Home
  \/ ForUsername
  \/ CallSendStreak
  \/ RecordSuccess
  \/ RetryOrFail
  \/ DelayBetweenUsers
  \/ Summary
  \/ CriticalError
  \/ Finally
  \/ Navigate
  \/ Guard1
  \/ Guard2
  \/ CaptchaDetect
  \/ CaptchaClose
  \/ CaptchaEscape
  \/ CaptchaReturns
  \/ FindMessageButton
  \/ NoButton
  \/ ClickMessageButton
  \/ ClickFailed
  \/ FindMessageInput
  \/ InputCheck
  \/ TypeAndSubmit
  \/ WorkflowExcept
  \/ InterruptBatch

Spec == Init /\ [][Next]_vars

(* ------------------------------------------------------------------ *)
(* The element lookups on a fixed page                                  *)
(* ------------------------------------------------------------------ *)
\* A page state gives every selector of a list its outcome.
ButtonPages == [1..NumButtonSelectors -> LocatorOutcomes]
InputPages == [1..NumInputSelectors -> LocatorOutcomes]

\* The state in which a lookup starts on a page that does not change.
InitLocator ==
  /\ spc = "job"
  /\ now = SendMinuteOfDay
  /\ next_run = SendMinuteOfDay
  /\ last_check = SendMinuteOfDay
  /\ runsOnDay = [d \in Days |-> 0]
  /\ schedStart = 0
  /\ busyDays = {}
  /\ jobRaised = FALSE
  /\ beat = NoBeat
  /\ logFaults = 0
  /\ cookies = "objects"
  /\ users = <<"a">>
  /\ driver = "chrome"
  /\ browsers = 1
  /\ idx = 1
  /\ attempt = 0
  /\ success_count = 0
  /\ fail_count = 0
  /\ error = "none"
  /\ run = RunInit
  /\ wf = [WfInit EXCEPT !.sel = 1]
  /\ list_txt = <<>>
  /\ \/ /\ pc = "locate_button"
        /\ lookup \in {[kind |-> "button", page |-> p, matched |-> 0] :
                         p \in ButtonPages}
     \/ /\ pc = "locate_input"
        /\ lookup \in {[kind |-> "input", page |-> p, matched |-> 0] :
                         p \in InputPages}

\* find_message_button on the page: the selector at wf.sel gives what the
\* page holds for it; `matched` records the selector whose element is
\* returned.
ButtonLookupOnPage ==
  /\ lookup.kind = "button"
  /\ pc = "locate_button"
  /\ ButtonLookupStep(lookup.page[wf.sel])
  /\ lookup' = [lookup EXCEPT
                  !.matched = IF ButtonSelectorReturns(lookup.page[wf.sel])
                                THEN wf.sel ELSE @]
  /\ UNCHANGED <<spc, now, next_run, last_check, runsOnDay, schedStart,
                 busyDays, jobRaised, beat, logFaults, cookies, users, driver, browsers, idx, attempt,
                 success_count, fail_count, error, run, list_txt>>

\* The message-input loop on the page; `matched` records the selector whose
\* element message_input holds.
InputLookupOnPage ==
  /\ lookup.kind = "input"
  /\ pc = "locate_input"
  /\ InputLookupStep(lookup.page[wf.sel])
  /\ lookup' = [lookup EXCEPT
                  !.matched = IF InputSelectorAssigns(lookup.page[wf.sel])
                                THEN wf.sel ELSE @]
  /\ UNCHANGED <<spc, now, next_run, last_check, runsOnDay, schedStart,
                 busyDays, jobRaised, beat, logFaults, cookies, users, driver, browsers, idx, attempt,
                 success_count, fail_count, error, run, list_txt>>

NextLocator ==
  \/ ButtonLookupOnPage
  \/ InputLookupOnPage

SpecLocator == InitLocator /\ [][NextLocator]_vars

(* ------------------------------------------------------------------ *)
(* load_users on a given list.txt                                      *)
(* ------------------------------------------------------------------ *)
\* A line is the sequence of its characters, without the line terminator
\* (str.strip removes it with the other whitespace).  " " stands for any
\* whitespace character, "u" for any other character than '@' and '#'.
Whitespace == {" "}
LineChars == {" ", "@", "#", "u"}
LinesUpTo(n) == UNION {[1..k -> LineChars] : k \in 0..n}
\* The file of the documented example: user1, #comment, an empty line,
\* @user2.
ExampleFile == <<<<"u">>, <<"#", "u">>, <<>>, <<"@", "u", "u">>>>
ListFiles ==
  UNION {[1..k -> LinesUpTo(MaxLineLen)] : k \in 0..MaxLines} \cup {ExampleFile}

\* str.lstrip(chars): drop characters of cs from the left end while there
\* are any.
RECURSIVE LStrip(_, _)
LStrip(l, cs) ==
  IF l # <<>> /\ Head(l) \in cs THEN LStrip(Tail(l), cs) ELSE l

\* str.rstrip(chars).
RECURSIVE RStrip(_, _)
RStrip(l, cs) ==
  IF l # <<>> /\ l[Len(l)] \in cs
    THEN RStrip(SubSeq(l, 1, Len(l) - 1), cs)
    ELSE l

\* str.strip(): whitespace dropped at both ends.
Strip(l) == RStrip(LStrip(l, Whitespace), Whitespace)

\* str.startswith(c) for a one-character prefix.
StartsWith(l, c) == l # <<>> /\ Head(l) = c

\* Mutant: the comment test reads the stripped line.
RECURSIVE load_users_CommentAfterStrip(_)
load_users_CommentAfterStrip(f) ==
  IF f = <<>>
    THEN <<>>
    ELSE (IF Strip(Head(f)) # <<>> /\ ~StartsWith(Strip(Head(f)), "#")
            THEN <<LStrip(Strip(Head(f)), {"@"})>>
            ELSE <<>>) \o load_users_CommentAfterStrip(Tail(f))

\* Line 89: [line.strip().lstrip('@') for line in f
\*           if line.strip() and not line.startswith('#')].
RECURSIVE load_users(_)
load_users(f) ==
  IF f = <<>>
    THEN <<>>
    ELSE (IF Strip(Head(f)) # <<>> /\ ~StartsWith(Head(f), "#")
            THEN <<LStrip(Strip(Head(f)), {"@"})>>
            ELSE <<>>) \o load_users(Tail(f))

\* run_streak_bot has reached line 416 and list.txt holds the lines list_txt.
InitLoadUsers ==
  /\ spc = "job"
  /\ now = SendMinuteOfDay
  /\ next_run = SendMinuteOfDay
  /\ last_check = SendMinuteOfDay
  /\ runsOnDay = [d \in Days |-> 0]
  /\ schedStart = 0
  /\ busyDays = {}
  /\ jobRaised = FALSE
  /\ beat = NoBeat
  /\ logFaults = 0
  /\ pc = "load_users"
  /\ cookies = "objects"
  /\ users = <<>>
  /\ driver = "none"
  /\ browsers = 0
  /\ idx = 0
  /\ attempt = 0
  /\ success_count = 0
  /\ fail_count = 0
  /\ error = "none"
  /\ run = RunInit
  /\ wf = WfInit
  /\ lookup = NoLookup
  /\ list_txt \in ListFiles

\* Lines 416-420 on the file: users = load_users(); an empty result is logged
\* and the run returns.
LoadUsersFromFile ==
  /\ pc = "load_users"
  /\ users' = load_users(list_txt)
  /\ IF users' = <<>>
       THEN /\ run' = [run EXCEPT !.usersFile = "empty", !.configLogged = TRUE]
            /\ pc' = "finally"
       ELSE /\ run' = [run EXCEPT !.usersFile = "list"]
            /\ pc' = "setup_driver"
  /\ UNCHANGED schedVars
  /\ UNCHANGED <<cookies, driver, browsers, idx, attempt, success_count,
                 fail_count, error, wf>>

NextLoadUsers == LoadUsersFromFile

SpecLoadUsers == InitLoadUsers /\ [][NextLoadUsers]_vars

(* ================================================================== *)
(* Claims                                                               *)
(* ================================================================== *)
\* The batch run is inside run_streak_bot with no interrupt in flight.
InBatch == spc = "job" /\ error = "none"

\* Entries of the list whose outcome has been recorded.
EntriesRecorded == IF run.outcome = "none" /\ idx >= 1 THEN idx - 1 ELSE idx

\* C1: success_count + fail_count never exceeds the number of accounts, it
\* equals the number of entries whose outcome was recorded (each entry is
\* counted once, as a success or as a failure), and at the summary it equals
\* the number of accounts, all of them attempted.
C1_CountsMatchEntries ==
  /\ success_count + fail_count <= Len(users)
  /\ success_count + fail_count = EntriesRecorded
  /\ run.summary =>
       /\ success_count + fail_count = Len(users)
       /\ Cardinality(run.attempted) = Len(users)

C1_Witness ==
  /\ run.summary
  /\ Len(users) = MaxUsers
  /\ success_count = 1
  /\ fail_count = MaxUsers - 1

\* C2: no list entry gets more than MAX_RETRIES workflow attempts, and
\* fail_count is incremented by one, only for an entry that has had exactly
\* MAX_RETRIES attempts, all of them failed, and only once.
C2_RetryBound ==
  [][ /\ run'.tries <= MAX_RETRIES
      /\ fail_count' > fail_count =>
           /\ fail_count' = fail_count + 1
           /\ run.tries = MAX_RETRIES
           /\ run.outcome = "none"
           /\ run'.outcome = "fail"
      /\ (run.outcome = "fail" /\ run'.tries > run.tries) => run'.tries = 1
    ]_vars

C2_Witness ==
  /\ run.outcome = "fail"
  /\ run.tries = MAX_RETRIES
  /\ fail_count = 1

\* C3 as claimed: no calendar day sees more than one trigger of the batch
\* runner, and after a trigger the job is scheduled for a later day than
\* every day that had a trigger, so that further polls do not trigger it.
C3_OncePerDay ==
  /\ \A d \in Days : runsOnDay[d] <= 1
  /\ spc \in {"poll", "heartbeat", "sched_except"} =>
       \A d \in Days : runsOnDay[d] >= 1 => DayOf(next_run) > d

\* The loop was started before SEND_TIME of day d and has polled at or after
\* that instant.
TriggerReached(d) ==
  /\ spc \in {"poll", "job", "heartbeat", "sched_except"}
  /\ schedStart < TriggerOf(d)
  /\ \/ now > TriggerOf(d)
     \/ now = TriggerOf(d) /\ spc # "poll"

C6_LocatedElementsDisplayed ==
  /\ wf.message_button = "element" => wf.button_displayed
  /\ pc = "click_button" => wf.message_button = "element"
  /\ (pc \in {"input_check", "type_and_submit"} /\ wf.message_input = "element")
       => wf.input_displayed
  /\ pc = "type_and_submit" => wf.message_input = "element"

\* The first selector of the page whose element is displayed (0: none).
FirstDisplayed(page) ==
  IF \E i \in DOMAIN page : page[i] = "displayed"
    THEN CHOOSE i \in DOMAIN page :
           /\ page[i] = "displayed"
           /\ \A j \in 1..(i - 1) : page[j] # "displayed"
    ELSE 0

LookupFinished == pc \in {"click_button", "no_button", "input_check"}

\* C7: on a page where one or more selectors have a displayed element, a
\* finished lookup (message button: XPath list then CSS list; message input)
\* holds the element of the earliest such selector, so the result is a
\* function of the page state.
C7_FirstMatchWins ==
  (lookup.kind # "none" /\ LookupFinished /\ FirstDisplayed(lookup.page) # 0) =>
    /\ lookup.matched = FirstDisplayed(lookup.page)
    /\ lookup.kind = "button" =>
         (pc = "click_button" /\ wf.message_button = "element")
    /\ lookup.kind = "input" =>
         (wf.message_input = "element" /\ wf.input_displayed)

C7_Witness ==
  /\ lookup.kind = "button"
  /\ pc = "click_button"
  /\ lookup.page[1] = "hidden"
  /\ lookup.page[2] = "timeout"
  /\ lookup.page[3] = "displayed"
  /\ lookup.page[NumXPathSelectors + 1] = "displayed"
  /\ lookup.matched = 3

\* C8 as claimed: the inter-account delay is never slept after the final
\* entry, and entry i+1 is started only after the delay that follows entry i.
C8_DelayBetweenEntries ==
  InBatch =>
    /\ Len(users) \notin run.delayedAfter
    /\ \A i \in 1..(Len(users) - 1) : i < idx => i \in run.delayedAfter

\* C9: after navigation the guard is called at most CAPTCHA_CHECK_ATTEMPTS
\* times, every call but the last reported a dismissal, and the loop is left
\* at the first call that reports none; after the message-button click the
\* guard is called exactly once; the dismissals reported at a site never
\* exceed its calls.
C9_GuardBounds ==
  /\ wf.calls1 <= CAPTCHA_CHECK_ATTEMPTS
  /\ wf.dismissed1 <= wf.calls1
  /\ pc = "guard1" => wf.dismissed1 = wf.calls1
  /\ (pc = "locate_button" /\ lookup.kind = "none") =>
       /\ wf.calls1 >= 1
       /\ \/ wf.dismissed1 = wf.calls1 - 1
          \/ wf.dismissed1 = CAPTCHA_CHECK_ATTEMPTS
  /\ wf.calls2 <= 1
  /\ wf.dismissed2 <= wf.calls2
  /\ pc = "guard2" => (wf.calls2 = 0 /\ wf.clicks = 1)
  /\ (pc \in {"locate_input", "input_check", "type_and_submit"}
        /\ lookup.kind = "none") => wf.calls2 = 1

C9_WitnessSite1 ==
  /\ pc = "locate_button"
  /\ wf.calls1 = CAPTCHA_CHECK_ATTEMPTS
  /\ wf.dismissed1 = CAPTCHA_CHECK_ATTEMPTS

\* The run read a cookie file or an account list file that is missing or
\* malformed.
ConfigFileBad ==
  \/ run.cookieFile \in {"missing"} \cup MalformedCookieFiles
  \/ run.usersFile \in {"missing", "undecodable"}

\* C10 as claimed: a run that read a missing or malformed cookie or account
\* file launches no browser and navigates to no page, ends with the error
\* logged and no exception leaving run_streak_bot, and the scheduler goes on
\* with the job scheduled for a later instant.
C10_ConfigErrorAbortsBeforeBrowser ==
  /\ (InBatch /\ ConfigFileBad) =>
       /\ run.launched = 0
       /\ ~run.navigated
       /\ driver = "none"
       /\ pc \in {"finally", "return"} =>
            (run.configLogged \/ run.criticalLogged)
  /\ spc = "heartbeat" => next_run > now

\* C11 as claimed: the click methods are tried in order, the loop is left at
\* the first method that reports success, the result is True exactly when a
\* method reported success, and in one invocation the browser performs at most
\* one click on the button.
C11_AtMostOneClick ==
  /\ pc = "click_button" => (wf.sel \in 1..NumClickMethods /\ wf.clicks = 0)
  /\ pc = "guard2" => wf.clicks = 1
  /\ pc = "click_failed" => wf.clicks = 0
  /\ wf.dispatched <= 1

\* C12 as claimed: once the poll loop is entered, an exception raised inside
\* an iteration (by the job, the heartbeat or a log write) is caught and the
\* loop polls again after the backoff; only an operator interrupt ends the
\* loop.
C12_LoopEndsOnlyOnInterrupt ==
  /\ spc # "crashed"
  /\ spc = "stopped" => schedStart >= 0

\* The state of the Send Workflow at position p with locals w: 1 NAVIGATE,
\* 2 GUARD_1, 3 LOCATE_BUTTON, 4 CLICK_BUTTON, 5 GUARD_2, 6 LOCATE_INPUT,
\* 7 TYPE_AND_SUBMIT, 8 DONE, 9 FAILED; 0 outside the workflow.
StageOf(p, w) ==
  CASE p = "navigate" -> 1
    [] p = "guard1" -> 2
    [] p \in {"cap_detect", "cap_close", "cap_esc", "cap_return"} ->
         (IF w.site = 1 THEN 2 ELSE 5)
    [] p = "locate_button" -> 3
    [] p = "click_button" -> 4
    [] p = "guard2" -> 5
    [] p \in {"locate_input", "input_check"} -> 6
    [] p = "type_and_submit" -> 7
    [] p = "attempt_done" -> (IF w.result = "true" THEN 8 ELSE 9)
    [] p \in {"no_button", "click_failed", "wf_except"} -> 9
    [] OTHER -> 0

\* C13: a workflow attempt starts at NAVIGATE, every step stays in its state,
\* moves to the next state of the chain or to FAILED, never back and never
\* past a state; FAILED is left only by returning False; DONE is entered
\* only from TYPE_AND_SUBMIT, with the message button located, one click
\* reported, the guard called after it, the input located and the message
\* submitted.
C13_ForwardOnly ==
  [][ LET s == StageOf(pc, wf)
          t == StageOf(pc', wf')
      IN /\ (s = 0 /\ t # 0) => t = 1
         /\ t = 1 => s = 0
         /\ (s \in 1..7 /\ t # 0) => t \in {s, s + 1, 9}
         /\ (s = 9 /\ t # 0) => t = 9
         /\ (s = 7 /\ t = 8) =>
              /\ wf.message_button = "element"
              /\ wf.clicks = 1
              /\ wf.calls2 = 1
              /\ wf.message_input = "element"
              /\ run'.submitted = run.submitted + 1
         /\ (s # 7 /\ t = 8) => s = 8
    ]_vars

C13_Witness ==
  /\ pc = "attempt_done"
  /\ wf.result = "true"
  /\ run.tries = 2
  /\ run.submitted = 1

\* C14 as claimed: once the message-button lookup of an entry has exhausted
\* its selectors, the attempt fails with the no_button screenshot and none of
\* CLICK_BUTTON, GUARD_2, LOCATE_INPUT, TYPE_AND_SUBMIT executes for that
\* entry.
C14_NoLaterStateForAccount ==
  (InBatch /\ run.no_button) =>
    /\ StageOf(pc, wf) \notin 4..8
    /\ pc = "attempt_done" => wf.shot = "no_button"

\* C14 as amended: the lookup reports no button only after its last selector
\* failed; the attempt then returns False without executing a later state,
\* with the screenshot tagged no_button when the screenshot call wrote it, no
\* screenshot when it could not write, and through the error handler when it
\* raised.
C14_NoButtonFailsAttempt ==
  [][ /\ (pc' = "no_button" /\ pc # "no_button") =>
           (pc = "locate_button" /\ wf.sel = NumButtonSelectors)
      /\ pc = "no_button" =>
           /\ pc' \in {"no_button", "attempt_done", "wf_except", "finally"}
           /\ pc' = "attempt_done" =>
                /\ wf'.result = "false"
                /\ wf'.shot \in {"no_button", "none"}
                /\ wf'.failed_from = "LOCATE_BUTTON"
      /\ (pc = "wf_except" /\ wf.failed_from = "LOCATE_BUTTON") =>
           /\ pc' \in {"wf_except", "attempt_done", "finally"}
           /\ pc' = "attempt_done" => wf'.result = "false"
    ]_vars

C14_Witness ==
  /\ pc = "attempt_done"
  /\ wf.failed_from = "LOCATE_BUTTON"
  /\ wf.shot = "no_button"
  /\ wf.result = "false"

(* ------------------------------------------------------------------ *)
(* C15                                                                 *)
(* ------------------------------------------------------------------ *)
\* load_users has returned in the run on list_txt.
Loaded == pc \in {"setup_driver", "finally"}
Blank(l) == \A i \in 1..Len(l) : l[i] \in Whitespace
\* A line that is neither blank nor a comment (a line starting with '#').
IsKept(l) == ~Blank(l) /\ ~StartsWith(l, "#")
KeptLines(f) == SelectSeq(f, IsKept)
\* The number of '@' a line begins with.
LeadingAts(l) ==
  CHOOSE n \in 0..Len(l) :
    /\ \A i \in 1..n : l[i] = "@"
    /\ n < Len(l) => l[n + 1] # "@"
WithoutLeadingAt(l) == SubSeq(l, LeadingAts(l) + 1, Len(l))
\* A non-blank line from its first to its last non-whitespace character.
Trimmed(l) ==
  LET inked == {i \in 1..Len(l) : l[i] \notin Whitespace}
      first == CHOOSE i \in inked : \A j \in inked : i <= j
      last == CHOOSE i \in inked : \A j \in inked : i >= j
  IN SubSeq(l, first, last)

\* C15 as claimed: load_users returns the lines that are neither blank nor
\* comments, in their order, each with its leading '@' stripped and nothing
\* else changed.
C15_KeptLinesAtStripped ==
  Loaded =>
    users = [i \in 1..Len(KeptLines(list_txt)) |->
               WithoutLeadingAt(KeptLines(list_txt)[i])]

\* C15 as amended: load_users returns the lines that are neither blank nor
\* start with '#', in their order, each trimmed of the whitespace around it
\* and then stripped of every leading '@'; the documented example loads as
\* user1, user2.
C15_KeptLinesTrimmedAtStripped ==
  Loaded =>
    /\ users = [i \in 1..Len(KeptLines(list_txt)) |->
                  WithoutLeadingAt(Trimmed(KeptLines(list_txt)[i]))]
    /\ list_txt = ExampleFile => users = <<<<"u">>, <<"u", "u">>>>

\* The documented example has been loaded.
C15_Witness ==
  /\ Loaded
  /\ list_txt = ExampleFile
  /\ users = <<<<"u">>, <<"u", "u">>>>

(* ------------------------------------------------------------------ *)
(* C16                                                                 *)
(* ------------------------------------------------------------------ *)
\* A workflow attempt has just ended in FAILED.
AttemptFailed == pc = "attempt_done" /\ wf.result = "false"
\* The tag of the screenshot of a failure in workflow state st.
StageTag(st) ==
  CASE st = "LOCATE_BUTTON" -> "no_button"
    [] st = "CLICK_BUTTON" -> "click_failed"
    [] st = "LOCATE_INPUT" -> "no_input"
    [] OTHER -> "error"

\* C16 as claimed: every workflow attempt that ends in FAILED has captured a
\* screenshot tagged with the failure stage.
C16_FailedAttemptHasScreenshot ==
  AttemptFailed => wf.shot = StageTag(wf.failed_from)

\* C16 as amended: every workflow attempt that ends in FAILED has returned
\* False after at least one save_screenshot call; a screenshot that was
\* written is tagged `error` when the handler of unhandled errors ran and
\* with the failure stage otherwise, and no screenshot exists when the calls
\* could not write one.
C16_FailedAttemptTriesScreenshot ==
  AttemptFailed =>
    /\ wf.shots_tried >= 1
    /\ wf.failed_from \in {"NAVIGATE", "LOCATE_BUTTON", "CLICK_BUTTON",
                           "LOCATE_INPUT", "TYPE_AND_SUBMIT"}
    /\ wf.shot \in {"none", IF wf.handled THEN "error"
                                          ELSE StageTag(wf.failed_from)}
    /\ wf.handled <=> (wf.failed_from \in {"NAVIGATE", "TYPE_AND_SUBMIT"}
                         \/ wf.shots_tried = 2)

\* An attempt failed because all click methods raised, and its screenshot
\* was written.
C16_Witness ==
  /\ AttemptFailed
  /\ wf.failed_from = "CLICK_BUTTON"
  /\ wf.shot = "click_failed"
  /\ ~wf.handled

(* ------------------------------------------------------------------ *)
(* C17                                                                 *)
(* ------------------------------------------------------------------ *)
\* C17: check_and_close_captcha returns True exactly when a marker was
\* detected and a dismissal action (a close click or ESC) was attempted, and
\* ESC is sent only when no close element was clicked.
C17_TrueIffDetectedAndAttempted ==
  pc = "cap_return" =>
    /\ wf.cap.result <=> (wf.cap.marker /\ wf.cap.tried)
    /\ wf.cap.esc => ~wf.cap.close_clicked

(* ------------------------------------------------------------------ *)
(* C18                                                                 *)
(* ------------------------------------------------------------------ *)
\* C18: a status update (heartbeat) triggers no batch run, comes at least
\* HeartbeatMinutes after the one before it, and shows as next run the
\* instant the schedule job holds as its next_run.
C18_Heartbeat ==
  [][beat' # beat =>
       /\ runsOnDay' = runsOnDay
       /\ spc' # "job"
       /\ beat'.next = next_run'
       /\ beat # NoBeat => beat'.at - beat.at >= HeartbeatMinutes]_vars

(* ------------------------------------------------------------------ *)
(* C19                                                                 *)
(* ------------------------------------------------------------------ *)
\* C19: when run_streak_bot is left, quit has been called for every browser
\* the run launched.
C19_QuitAttemptedForEveryBrowser ==
  pc = "return" => run.quit_tried = run.launched

(* ------------------------------------------------------------------ *)
(* C20                                                                 *)
(* ------------------------------------------------------------------ *)
\* C20: in one batch run at most one message is submitted for a list entry,
\* and an attempt that failed has submitted none.
C20_AtMostOneMessagePerEntry ==
  /\ run.submitted <= 1
  /\ AttemptFailed => run.submitted = 0

(* ------------------------------------------------------------------ *)
(* C21                                                                 *)
(* ------------------------------------------------------------------ *)
\* C21: every identifier load_users returns is a normalized handle: it is
\* not empty, does not begin with '@', has no whitespace at either end and
\* is not a comment (does not begin with '#').
C21_HandlesNormalized ==
  Loaded =>
    \A i \in 1..Len(users) :
      /\ users[i] # <<>>
      /\ Head(users[i]) \notin Whitespace \cup {"@", "#"}
      /\ users[i][Len(users[i])] \notin Whitespace

====
